---- MODULE Spec2Model ----
(***************************************************************************)
(* BOM2CWOP: Bureau of Meteorology JSON observations to APRS/CWOP uploader. *)
(* Model of src/BOM2CWOP.py: the session client (APRSClient), the field     *)
(* formatter and packet encoder (str_or_dots, make_aprs_wx,                 *)
(* bom_json_to_aprs), the station resolver and the __main__ orchestrator.   *)
(*                                                                         *)
(* Text is a sequence of one-character strings.  A Python float is a        *)
(* sign-magnitude fixed-point number [neg, m, sticky]: its magnitude lies   *)
(* in [m, m+1) / FScale and sticky says that it is strictly above m/FScale. *)
(* Arithmetic is exact; inputs carry at most FracDigits decimals.           *)
(***************************************************************************)
EXTENDS Integers, Sequences, FiniteSets, TLC

VARIABLES
    pc,               \* position of the run / of the unit under analysis
    STATION_JSON,     \* the configured mapping (module-level setting)
    wanted,           \* __main__: wanted
    aprs_mapping,     \* __main__: aprs_mapping
    station_obs_list, \* __main__: station_obs_list
    idx,              \* __main__: position of the for loop (1-based)
    obs,              \* __main__: obs / bom_json_to_aprs: obs
    wx,               \* bom_json_to_aprs: converted locals at the return
    aprs_str,         \* __main__: aprs_str / bom_json_to_aprs: result
    comment,          \* __main__: comment
    wx_call,          \* __main__: wx_call
    sent_count,       \* __main__: sent_count
    sock,             \* APRSClient.sock (0 is None, else a socket id)
    socks,            \* the sockets created so far, by id
    raised,           \* whether the last client call propagated an exception
    out,              \* the lines printed so far
    exit_code         \* the status passed to sys.exit (-1 while running)

vars == <<pc, STATION_JSON, wanted, aprs_mapping, station_obs_list, idx, obs, wx,
          aprs_str, comment, wx_call, sent_count, sock, socks, raised, out, exit_code>>

----------------------------------------------------------------------------
(* Bounds of the model *)

\* sockets a client may create in a free sequence of calls
MaxSockets == 3
\* frames a client may transmit in a free sequence of calls
MaxFrames == 2
\* stations in a retrieved list
MaxStations == 2

----------------------------------------------------------------------------
(* Numbers and text *)

\* fixed-point unit of a float: four decimals
FScale == 10 ^ 4

Abs(n) == IF n < 0 THEN -n ELSE n
Min(a, b) == IF a <= b THEN a ELSE b

DigitChars == <<"0", "1", "2", "3", "4", "5", "6", "7", "8", "9">>
IsDigit(c) == \E i \in 1..10 : DigitChars[i] = c
DigitVal(c) == (CHOOSE i \in 1..10 : DigitChars[i] = c) - 1

RECURSIVE Repeat(_, _)
Repeat(c, n) == IF n <= 0 THEN <<>> ELSE <<c>> \o Repeat(c, n - 1)

\* decimal digits of a natural number, most significant first
RECURSIVE NatDigits(_)
NatDigits(n) ==
    IF n < 10 THEN <<DigitChars[n + 1]>>
    ELSE NatDigits(n \div 10) \o <<DigitChars[(n % 10) + 1]>>

\* value of a sequence of digit characters
RECURSIVE DigitsVal(_)
DigitsVal(s) ==
    IF s = <<>> THEN 0
    ELSE DigitsVal(SubSeq(s, 1, Len(s) - 1)) * 10 + DigitVal(s[Len(s)])

\* decimals a float carries exactly
FracDigits == Len(NatDigits(FScale)) - 1

AllDigits(s) == \A i \in 1..Len(s) : IsDigit(s[i])

\* str.strip() for blanks
RECURSIVE Strip(_)
Strip(s) ==
    IF s = <<>> THEN s
    ELSE IF s[1] = " " THEN Strip(Tail(s))
    ELSE IF s[Len(s)] = " " THEN Strip(SubSeq(s, 1, Len(s) - 1))
    ELSE s

\* str.zfill(width) of a text that carries no sign
ZFill(s, width) == Repeat("0", width - Len(s)) \o s

----------------------------------------------------------------------------
(* Python values *)

None == [t |-> "none"]
PyStr(s) == [t |-> "str", s |-> s]
PyInt(n) == [t |-> "int", v |-> n]
PyFloat(neg, m, sticky) == [t |-> "float", neg |-> neg, m |-> m, sticky |-> sticky]

\* decoded JSON values of an observation field
JNull == [k |-> "null"]
JInt(n) == [k |-> "int", v |-> n]
JFloat(neg, m) == [k |-> "float", neg |-> neg, m |-> m]
JStr(s) == [k |-> "str", s |-> s]
JList == [k |-> "list"]

Fail == [ok |-> FALSE]
Ok(v) == [ok |-> TRUE, v |-> v]

\* float(text), the digits split at the point: ip "." fp
ParseParts(neg, ip, fp, ndots) ==
    IF ndots > 1 \/ ~AllDigits(ip) \/ ~AllDigits(fp) \/ Len(ip) + Len(fp) = 0
    THEN Fail
    ELSE Ok(PyFloat(neg,
                    DigitsVal(ip) * FScale
                      + DigitsVal(SubSeq(fp, 1, Min(FracDigits, Len(fp)))
                                    \o Repeat("0", FracDigits - Len(fp))),
                    \E i \in (FracDigits + 1)..Len(fp) : fp[i] # "0"))

\* index of the first point of a text, or one past its end
DotIndex(body) ==
    IF \E i \in 1..Len(body) : body[i] = "."
    THEN CHOOSE i \in 1..Len(body) : body[i] = "." /\ \A j \in 1..(i - 1) : body[j] # "."
    ELSE Len(body) + 1

ParseAt(neg, body, dot) ==
    ParseParts(neg, SubSeq(body, 1, dot - 1),
               IF dot >= Len(body) THEN <<>> ELSE SubSeq(body, dot + 1, Len(body)),
               Cardinality({i \in 1..Len(body) : body[i] = "."}))

ParseSigned(s) ==
    IF s # <<>> /\ s[1] \in {"+", "-"}
    THEN ParseAt(s[1] = "-", Tail(s), DotIndex(Tail(s)))
    ELSE ParseAt(FALSE, s, DotIndex(s))

\* float(text): optional sign, digits with an optional fraction, blanks around
ParseFloat(text) == ParseSigned(Strip(text))

\* float(x) for a decoded JSON value or None
ToFloat(x) ==
    CASE x.k = "int" -> Ok(PyFloat(x.v < 0, Abs(x.v) * FScale, FALSE))
      [] x.k = "float" -> Ok(PyFloat(x.neg, x.m, FALSE))
      [] x.k = "str" -> ParseFloat(x.s)
      [] OTHER -> Fail

\* int(f): truncation toward zero
Trunc(f) == LET q == f.m \div FScale IN IF f.neg THEN -q ELSE q

\* (mh + ml / FScale) * (c1 / FScale + c2 / FScale^2) from its partial products:
\* T in 1 / FScale units and R in 1 / FScale^2 units below the whole units
MulParts(neg, whole, T, low) ==
    PyFloat(neg,
            whole + (T \div FScale)
              + (((T % FScale) * FScale + low) \div (FScale * FScale)),
            ((T % FScale) * FScale + low) % (FScale * FScale) # 0)

\* f * (c1 / FScale + c2 / FScale^2) for a float that is exact in FScale units
MulConst(f, c1, c2) ==
    MulParts(f.neg, (f.m \div FScale) * c1,
             (f.m \div FScale) * c2 + (f.m % FScale) * c1,
             (f.m % FScale) * c2)

\* round-half-to-even of the magnitude of a float to a whole number
RoundHalfEven(f) ==
    LET q == f.m \div FScale
        r == f.m % FScale
        half == FScale \div 2
    IN  IF r > half \/ (r = half /\ f.sticky) THEN q + 1
        ELSE IF r = half THEN (IF q % 2 = 0 THEN q ELSE q + 1)
        ELSE q

----------------------------------------------------------------------------
(* Field formatter and packet encoder *)

\* '%0<width>d' % n
FormatD(n, width) ==
    LET d == NatDigits(Abs(n))
    IN  IF n < 0 THEN <<"-">> \o Repeat("0", width - 1 - Len(d)) \o d
        ELSE Repeat("0", width - Len(d)) \o d

\* '%0<width>.0f' % f
FormatF0(f, width) ==
    LET d == NatDigits(RoundHalfEven(f))
    IN  IF f.neg THEN <<"-">> \o Repeat("0", width - 1 - Len(d)) \o d
        ELSE Repeat("0", width - Len(d)) \o d

\* '%02.2f' % minutes, for non-negative minutes given in 1/FScale units
FormatMinutes(fm) ==
    LET q == fm \div (FScale \div 100)
        r == fm % (FScale \div 100)
        half == FScale \div 200
        h == IF r > half \/ (r = half /\ q % 2 = 1) THEN q + 1 ELSE q
    IN  NatDigits(h \div 100) \o <<".">> \o ZFill(NatDigits(h % 100), 2)

str_or_dots(number, length) ==
    IF number.t = "none" THEN Repeat(".", length)
    ELSE IF number.t = "int" THEN FormatD(number.v, length)
    ELSE FormatF0(number, length)

make_aprs_wx(lat_str, lon_str, cmt, w) ==
    <<"!">> \o lat_str \o <<"/">> \o lon_str
      \o <<"_">> \o str_or_dots(w.wind_dir, 3)
      \o <<"/">> \o str_or_dots(w.wind_speed, 3)
      \o <<"g">> \o str_or_dots(w.wind_gust, 3)
      \o <<"t">> \o str_or_dots(w.temperature, 3)
      \o <<"P">> \o str_or_dots(w.rain_since_midnight, 3)
      \o <<"h">> \o str_or_dots(w.humidity, 2)
      \o <<"b">> \o str_or_dots(w.pressure, 5)
      \o cmt

CardinalNames ==
    <<"N", "NNE", "NE", "ENE", "E", "ESE", "SE", "SSE",
      "S", "SSW", "SW", "WSW", "W", "WNW", "NW", "NNW", "CALM">>
CardinalDegrees ==
    <<0, 22, 45, 67, 90, 112, 135, 157, 180, 202, 225, 247, 270, 292, 315, 337, 0>>

\* a one-character-per-element text from a string of the table
Chars(name) ==
    CASE name = "N" -> <<"N">> [] name = "NNE" -> <<"N", "N", "E">>
      [] name = "NE" -> <<"N", "E">> [] name = "ENE" -> <<"E", "N", "E">>
      [] name = "E" -> <<"E">> [] name = "ESE" -> <<"E", "S", "E">>
      [] name = "SE" -> <<"S", "E">> [] name = "SSE" -> <<"S", "S", "E">>
      [] name = "S" -> <<"S">> [] name = "SSW" -> <<"S", "S", "W">>
      [] name = "SW" -> <<"S", "W">> [] name = "WSW" -> <<"W", "S", "W">>
      [] name = "W" -> <<"W">> [] name = "WNW" -> <<"W", "N", "W">>
      [] name = "NW" -> <<"N", "W">> [] name = "NNW" -> <<"N", "N", "W">>
      [] name = "CALM" -> <<"C", "A", "L", "M">>

\* the dict cardinal_lookup: key in dict, dict[key]
InCardinal(s) == \E i \in 1..Len(CardinalNames) : Chars(CardinalNames[i]) = s
cardinal_lookup(s) ==
    CardinalDegrees[CHOOSE i \in 1..Len(CardinalNames) : Chars(CardinalNames[i]) = s]

\* dict.get(key, default) on the decoded observation
Get(d, key, default) == IF key \in DOMAIN d THEN d[key] ELSE default

\* LatStr with an unparseable latitude taken as 0.0
LatStrDefault(p) ==
    IF ~p.ok THEN Ok(<<"0", "0", "0", "0", ".", "0", "0", "S">>)
    ELSE Ok(FormatD(p.v.m \div FScale, 2)
              \o ZFill(FormatMinutes((p.v.m % FScale) * 60), 5)
              \o <<IF ~p.v.neg /\ p.v.m > 0 THEN "N" ELSE "S">>)

\* lines 133-138: the latitude text from float(obs.get("lat", 0.0))
LatStr(p) ==
    IF ~p.ok THEN Fail
    ELSE Ok(FormatD(p.v.m \div FScale, 2)
              \o ZFill(FormatMinutes((p.v.m % FScale) * 60), 5)
              \o <<IF ~p.v.neg /\ p.v.m > 0 THEN "N" ELSE "S">>)

\* lines 142-147: the longitude text from float(obs.get("lon", 0.0))
LonStr(p) ==
    IF ~p.ok THEN Fail
    ELSE Ok(FormatD(p.v.m \div FScale, 3)
              \o ZFill(FormatMinutes((p.v.m % FScale) * 60), 5)
              \o <<IF p.v.neg /\ p.v.m > 0 THEN "W" ELSE "E">>)

\* a signed number of fifths of the float unit, as a float
FromFifths(w) == PyFloat(w < 0, Abs(w) \div 5, Abs(w) % 5 # 0)

\* lines 150-153: float(air_temp) * (9.0 / 5.0) + 32
TempF(p) ==
    IF ~p.ok THEN None
    ELSE FromFifths((IF p.v.neg THEN -p.v.m ELSE p.v.m) * 9 + 32 * 5 * FScale)

\* PressHpa with round(float(press) * 10)
PressHpaRounded(p) ==
    IF ~p.ok THEN None
    ELSE LET n == RoundHalfEven(PyFloat(p.v.neg, p.v.m * 10, p.v.sticky))
         IN  PyInt(IF p.v.neg THEN -n ELSE n)

\* lines 154-157: int(float(press) * 10)
PressHpa(p) ==
    IF ~p.ok THEN None ELSE PyInt(Trunc(PyFloat(p.v.neg, p.v.m * 10, FALSE)))

\* lines 158-161: float(rain_trace) * 3.93700787
RainIn(p) == IF ~p.ok THEN None ELSE MulConst(p.v, 39370, 787)

\* lines 162-165: float(rel_hum)
Humidity(p) == IF ~p.ok THEN None ELSE p.v

\* lines 166-173: float(wind_spd_kt) * 1.15077945, float(gust_kt) * 1.15077945
Mph(p) == IF ~p.ok THEN None ELSE MulConst(p.v, 11507, 7945)

\* lines 178-181: int(float(wind_dir_value)), or None
WindDirNumeric(p) == IF ~p.ok THEN None ELSE PyInt(Trunc(p.v))

\* WindDir without the compass table
WindDirNumericOnly(v) == WindDirNumeric(ToFloat(v))

\* lines 174-181: table lookup first, else the numeric parse
WindDir(v) ==
    IF v.k = "str" /\ InCardinal(v.s) THEN PyInt(cardinal_lookup(v.s))
    ELSE WindDirNumeric(ToFloat(v))

\* the keyword arguments handed to make_aprs_wx (lines 150-193)
Converted(d) ==
    [temperature |-> TempF(ToFloat(Get(d, "air_temp", JNull))),
     pressure |-> PressHpa(ToFloat(Get(d, "press", JNull))),
     rain_since_midnight |-> RainIn(ToFloat(Get(d, "rain_trace", JNull))),
     humidity |-> Humidity(ToFloat(Get(d, "rel_hum", JNull))),
     wind_speed |-> Mph(ToFloat(Get(d, "wind_spd_kt", JNull))),
     wind_gust |-> Mph(ToFloat(Get(d, "gust_kt", JNull))),
     wind_dir |-> WindDir(Get(d, "wind_dir", JNull))]

NoWx == [temperature |-> None, pressure |-> None, rain_since_midnight |-> None,
         humidity |-> None, wind_speed |-> None, wind_gust |-> None,
         wind_dir |-> None]

\* results of a call: a returned value, or an exception that propagates
Returned(v) == [r |-> "return", v |-> v]
Raised == [r |-> "raise"]

\* an observation is None, a decoded JSON object, or another decoded value
ObsNone == [kind |-> "none"]
ObsDict(d) == [kind |-> "dict", d |-> d]
ObsOther == [kind |-> "other"]

\* `x in cardinal_lookup` raises TypeError for an unhashable value
WindDirRaises(d) == Get(d, "wind_dir", JNull).k = "list"

\* lines 132-193, given the two position texts
EncodeDict(lat, lon, d, cmt) ==
    IF ~lat.ok THEN Returned(None)
    ELSE IF ~lon.ok THEN Returned(None)
    ELSE IF WindDirRaises(d) THEN Raised
    ELSE Returned(PyStr(make_aprs_wx(lat.v, lon.v, cmt, Converted(d))))

bom_json_to_aprs(o, cmt) ==
    IF o.kind = "none" THEN Returned(None)
    ELSE IF o.kind # "dict" THEN Returned(None)
    ELSE EncodeDict(LatStr(ToFloat(Get(o.d, "lat", JFloat(FALSE, 0)))),
                    LonStr(ToFloat(Get(o.d, "lon", JFloat(FALSE, 0)))),
                    o.d, cmt)

----------------------------------------------------------------------------
(* Session client: class APRSClient *)

APRS_CALL == "VK5TRM-13"

\* what the environment does to the calls of connect(): socket() raises,
\* s.connect() raises, s.send(login) raises, or all three return
ConnectOutcomes == {"socket_error", "connect_error", "send_error", "ok"}
\* what the environment does to one socket call
CallOutcomes == {"ok", "error"}

LoginLine(user) == [t |-> "login", user |-> user]
Frame(call, data) == [t |-> "frame", call |-> call, data |-> data]

\* a socket object: what was transmitted on it and the calls it has received
NewSocket(state, wire) ==
    [state |-> state, wire |-> wire, shutdowns |-> 0, closes |-> 0,
     shutdown_error |-> FALSE, close_error |-> FALSE]

\* the client and its environment after a call: c = [sock, socks]
After(sk, sks, exc) == [sock |-> sk, socks |-> sks, raised |-> exc]

\* connect without the `if self.sock: return` guard
connect_unguarded(c, o) ==
    CASE o = "socket_error" -> After(0, c.socks, TRUE)
      [] o = "connect_error" ->
           After(0, Append(c.socks, NewSocket("open", <<>>)), TRUE)
      [] o = "send_error" ->
           After(0, Append(c.socks, NewSocket("connected", <<>>)), TRUE)
      [] o = "ok" ->
           After(Len(c.socks) + 1,
                 Append(c.socks, NewSocket("connected", <<LoginLine(APRS_CALL)>>)),
                 FALSE)

\* APRSClient.connect
connect(c, o) ==
    IF c.sock # 0 THEN After(c.sock, c.socks, FALSE)
    ELSE CASE o = "socket_error" -> After(0, c.socks, TRUE)
           [] o = "connect_error" ->
                After(0, Append(c.socks, NewSocket("open", <<>>)), TRUE)
           [] o = "send_error" ->
                After(0, Append(c.socks, NewSocket("connected", <<>>)), TRUE)
           [] o = "ok" ->
                After(Len(c.socks) + 1,
                      Append(c.socks, NewSocket("connected", <<LoginLine(APRS_CALL)>>)),
                      FALSE)

\* APRSClient.send_packet
send_packet(c, oc, os, call, data) ==
    LET c1 == IF c.sock = 0 THEN connect(c, oc) ELSE After(c.sock, c.socks, FALSE)
    IN  IF c1.raised THEN c1
        ELSE IF os = "error" THEN After(c1.sock, c1.socks, TRUE)
        ELSE After(c1.sock,
                   [c1.socks EXCEPT ![c1.sock].wire = Append(@, Frame(call, data))],
                   FALSE)

\* close that does not reset self.sock
close_keeps_sock(c, osd, ocl) ==
    IF c.sock # 0
    THEN After(c.sock,
               [c.socks EXCEPT ![c.sock] =
                  [@ EXCEPT !.shutdowns = @ + 1, !.closes = @ + 1, !.state = "closed",
                            !.shutdown_error = (osd = "error"),
                            !.close_error = (ocl = "error")]],
               FALSE)
    ELSE After(0, c.socks, FALSE)

\* close without the try/except around shutdown
close_propagates(c, osd, ocl) ==
    IF c.sock # 0
    THEN IF osd = "error"
         THEN After(c.sock,
                    [c.socks EXCEPT ![c.sock] =
                       [@ EXCEPT !.shutdowns = @ + 1, !.shutdown_error = TRUE]],
                    TRUE)
         ELSE After(0,
                    [c.socks EXCEPT ![c.sock] =
                       [@ EXCEPT !.shutdowns = @ + 1, !.closes = @ + 1,
                                 !.state = "closed", !.close_error = (ocl = "error")]],
                    FALSE)
    ELSE After(0, c.socks, FALSE)

\* APRSClient.close
close(c, osd, ocl) ==
    IF c.sock # 0
    THEN After(0,
               [c.socks EXCEPT ![c.sock] =
                  [@ EXCEPT !.shutdowns = @ + 1, !.closes = @ + 1, !.state = "closed",
                            !.shutdown_error = (osd = "error"),
                            !.close_error = (ocl = "error")]],
               FALSE)
    ELSE After(0, c.socks, FALSE)

Client == [sock |-> sock, socks |-> socks]

\* transmitted so far, over all sockets
RECURSIVE FramesOn(_)
FramesOn(sks) ==
    IF sks = <<>> THEN 0
    ELSE FramesOn(Tail(sks))
           + Len(SelectSeq(sks[1].wire, LAMBDA m : m.t = "frame"))

----------------------------------------------------------------------------
(* Settings, station resolver and archive retrieval *)

\* file names of the settings and of the archive, as text
NameA ==
    <<"I", "D", "S", "6", "0", "9", "1", "0", ".", "9", "4", "6", "8", "2",
      ".", "j", "s", "o", "n">>
NameB ==
    <<"I", "D", "S", "6", "0", "9", "1", "0", ".", "9", "5", "6", "8", "7",
      ".", "j", "s", "o", "n">>
NameC ==
    <<"I", "D", "S", "6", "0", "9", "1", "0", ".", "9", "4", "6", "7", "2",
      ".", "j", "s", "o", "n">>
InDir(name) == <<"I", "D", "S", "/">> \o name

\* os.path.basename
RECURSIVE Basename(_)
Basename(s) ==
    IF \E i \in 1..Len(s) : s[i] = "/"
    THEN Basename(Tail(s))
    ELSE s

\* str.split(sep)
RECURSIVE Split(_, _)
Split(s, sep) ==
    IF \E i \in 1..Len(s) : s[i] = sep
    THEN LET i == CHOOSE j \in 1..Len(s) : s[j] = sep /\ \A k \in 1..(j - 1) : s[k] # sep
         IN  <<SubSeq(s, 1, i - 1)>>
               \o Split(IF i = Len(s) THEN <<>> ELSE SubSeq(s, i + 1, Len(s)), sep)
    ELSE <<s>>

\* a dict: its keys in insertion order and the value of each
Dict(keys, val) == [keys |-> keys, val |-> val]
EmptyDict == Dict(<<>>, [k \in {} |-> ""])
SeqSet(q) == {q[i] : i \in 1..Len(q)}
Keys(d) == SeqSet(d.keys)

RECURSIVE Dedup(_)
Dedup(q) ==
    IF q = <<>> THEN q
    ELSE LET front == SubSeq(q, 1, Len(q) - 1)
         IN  IF \E i \in 1..Len(front) : front[i] = q[Len(q)]
             THEN Dedup(front) ELSE Append(Dedup(front), q[Len(q)])

NonBlank(k) == k # <<>> /\ Strip(k) # <<>>

RECURSIVE MapSeq(_, _)
MapSeq(Op(_), q) == IF q = <<>> THEN q ELSE <<Op(q[1])>> \o MapSeq(Op, Tail(q))

_normalize_station_json_param(station_json) ==
    CASE station_json.k = "none" -> [wanted |-> <<>>, mapping |-> EmptyDict]
      [] station_json.k = "dict" ->
           LET keep == SelectSeq(station_json.d.keys, NonBlank)
           IN  [wanted |-> keep,
                mapping |-> Dict(keep, [k \in SeqSet(keep) |-> station_json.d.val[k]])]
      [] station_json.k = "str" ->
           LET st == Strip(station_json.s)
               parts == SelectSeq(MapSeq(Strip, Split(st, ",")), LAMBDA q : q # <<>>)
           IN  IF st = <<>> \/ st = <<"*">>
               THEN [wanted |-> <<>>, mapping |-> EmptyDict]
               ELSE [wanted |-> parts,
                     mapping |-> Dict(Dedup(parts),
                                      [k \in SeqSet(parts) |-> APRS_CALL])]
      [] OTHER -> [wanted |-> <<>>, mapping |-> EmptyDict]

\* `x or APRS_CALL`
OrDefault(call) == IF call = "" THEN APRS_CALL ELSE call

\* determine_aprs_call_for_file returning the entry as it is, empty or not
determine_entry_as_is(station_filename, mapping) ==
    IF mapping.keys = <<>> THEN APRS_CALL
    ELSE IF station_filename \in Keys(mapping)
    THEN mapping.val[station_filename]
    ELSE IF Basename(station_filename) \in Keys(mapping)
    THEN mapping.val[Basename(station_filename)]
    ELSE APRS_CALL

\* determine_aprs_call_for_file without the lookup by base name
determine_full_name_only(station_filename, mapping) ==
    IF mapping.keys = <<>> THEN APRS_CALL
    ELSE IF station_filename \in Keys(mapping)
    THEN OrDefault(mapping.val[station_filename])
    ELSE APRS_CALL

determine_aprs_call_for_file(station_filename, mapping) ==
    IF mapping.keys = <<>> THEN APRS_CALL
    ELSE IF station_filename \in Keys(mapping)
    THEN OrDefault(mapping.val[station_filename])
    ELSE IF Basename(station_filename) \in Keys(mapping)
    THEN OrDefault(mapping.val[Basename(station_filename)])
    ELSE APRS_CALL

\* an archive member: its name and what extracting and decoding it gives.
\* content.k = "bad": extraction or json.loads fails; "json": a decoded object
\* with its observations.data (a list, or another value) and the station name
\* found in the header, the top level or the first observation (<<>>: none)
Member(name, content) == [name |-> name, content |-> content]
BadContent == [k |-> "bad"]
Json(observations, name) == [k |-> "json", observations |-> observations, name |-> name]
ObsList(items) == [k |-> "list", items |-> items]
ObsMapping == [k |-> "dict"]

Truthy(observations) == observations.k = "dict" \/ observations.items # <<>>

Station(file, observations, station_name) ==
    [file |-> file, observations |-> observations, station_name |-> station_name]

\* lines 234-278: the loop over the matched archive members
RECURSIVE Extract(_)
Extract(cands) ==
    IF cands = <<>> THEN <<>>
    ELSE LET m == cands[1]
             c == m.content
         IN  IF c.k = "json" /\ Truthy(c.observations)
             THEN <<Station(m.name, c.observations,
                            IF c.name # <<>> THEN c.name ELSE Basename(m.name))>>
                    \o Extract(Tail(cands))
             ELSE Extract(Tail(cands))

\* get_bom_jsons: ftp_ok is whether the download and tarfile.open succeed
get_bom_jsons(ftp_ok, archive, wanted_list) ==
    IF wanted_list = <<>> THEN <<>>
    ELSE IF ~ftp_ok THEN <<>>
    ELSE LET W == SeqSet(wanted_list)
             candidates == SelectSeq(archive,
                                     LAMBDA m : m.name \in W \/ Basename(m.name) \in W)
         IN  Extract(candidates)

----------------------------------------------------------------------------
(* Inputs of a run *)

Text_BOMWX == <<"B", "O", "M", "W", "X", " ">>
StationName == <<"A", "d", "e", "l", "a", "i", "d", "e">>

\* settings the run may be started with
Configs ==
    { [k |-> "none"],
      [k |-> "dict", d |-> EmptyDict],
      [k |-> "dict", d |-> Dict(<<NameA, NameB>>,
                                 (NameA :> "VK5TRM-13") @@ (NameB :> "VK5TRM-15"))],
      [k |-> "dict", d |-> Dict(<<<<" ">>, NameA>>, (<<" ">> :> "VK5TRM-1") @@ (NameA :> ""))],
      [k |-> "str", s |-> <<" ", "*">>],
      [k |-> "str", s |-> NameB \o <<",", " ">> \o NameA \o <<",">>] }

GoodFields ==
    [lat |-> JFloat(TRUE, 349285),
     lon |-> JStr(<<"1", "3", "8", ".", "6", "0", "0", "7">>),
     air_temp |-> JFloat(FALSE, 185000),
     press |-> JFloat(FALSE, 10132000),
     rain_trace |-> JStr(<<"0", ".", "0">>),
     rel_hum |-> JInt(55),
     wind_spd_kt |-> JInt(10),
     gust_kt |-> JInt(15),
     wind_dir |-> JStr(<<"S", "W">>)]

FieldNames == DOMAIN GoodFields

\* a record without one of its fields
Without(d, f) == [g \in (DOMAIN d) \ {f} |-> d[g]]

\* the first observations a station may carry
MainObs ==
    { ObsDict(GoodFields),
      ObsDict([GoodFields EXCEPT !.lat = JNull]),
      ObsDict([GoodFields EXCEPT !.lon = JStr(<<"n", "/", "a">>)]),
      ObsDict(Without(GoodFields, "lat")),
      ObsDict([GoodFields EXCEPT !.wind_dir = JList]),
      ObsNone }

Contents ==
    {BadContent, Json(ObsList(<<>>), <<>>), Json(ObsMapping, StationName)}
      \cup {Json(ObsList(<<o>>), n) : o \in MainObs, n \in {StationName}}

Members ==
    {Member(n, c) : n \in {NameA, InDir(NameB), NameC}, c \in Contents}

RECURSIVE SeqsUpTo(_, _)
SeqsUpTo(S, n) ==
    IF n = 0 THEN {<<>>}
    ELSE LET shorter == SeqsUpTo(S, n - 1)
         IN  shorter \cup {Append(q, x) : q \in shorter, x \in S}

Archives == SeqsUpTo(Members, MaxStations)

----------------------------------------------------------------------------
(* The run: __main__ *)

Line(ev, file, n) == [ev |-> ev, file |-> file, n |-> n]

\* an except clause that leaves the loop
OnStationErrorAbort(i) == [pc |-> "loop", idx |-> Len(station_obs_list) + 1]

\* the except clause of the loop body (lines 333-334): where the run goes on
OnStationError(i) == [pc |-> "loop", idx |-> i + 1]

\* `continue` after a refused observation (lines 323-325)
OnSkip(i, count) == [pc |-> "loop", idx |-> i + 1, sent_count |-> count]

\* the counter incremented before the send is known to have returned
OnSendCountsAlways(r, i, count) ==
    IF r.raised THEN [ev |-> "error", sent_count |-> count + 1]
    ELSE [ev |-> "sent", sent_count |-> count + 1]

\* lines 329-332 after send_packet returned or raised
OnSend(r, i, count) ==
    IF r.raised THEN [ev |-> "error", sent_count |-> count]
    ELSE [ev |-> "sent", sent_count |-> count + 1]

\* sys.exit(0) on every path
ExitStatusZero(path) == 0

\* the status of sys.exit on each path (lines 300, 305, 313, 338)
ExitStatus(path) == IF path = "finished" THEN 0 ELSE 1

Init ==
    /\ pc = "start"
    /\ STATION_JSON \in Configs
    /\ wanted = <<>>
    /\ aprs_mapping = EmptyDict
    /\ station_obs_list = <<>>
    /\ idx = 0
    /\ obs = ObsNone
    /\ wx = NoWx
    /\ aprs_str = None
    /\ comment = <<>>
    /\ wx_call = ""
    /\ sent_count = 0
    /\ sock = 0
    /\ socks = <<>>
    /\ raised = FALSE
    /\ out = <<>>
    /\ exit_code = -1

\* lines 297-300
Normalize ==
    /\ pc = "start"
    /\ LET n == _normalize_station_json_param(STATION_JSON)
       IN  /\ wanted' = n.wanted
           /\ aprs_mapping' = n.mapping
           /\ IF n.wanted = <<>>
              THEN /\ out' = Append(out, Line("no_station_json", <<>>, 0))
                   /\ exit_code' = ExitStatus("no_station_json")
                   /\ pc' = "exited"
              ELSE /\ pc' = "fetch"
                   /\ UNCHANGED <<out, exit_code>>
    /\ UNCHANGED <<STATION_JSON, station_obs_list, idx, obs, wx, aprs_str, comment,
                   wx_call, sent_count, sock, socks, raised>>

\* lines 302-305
Fetch ==
    /\ pc = "fetch"
    /\ \E ftp_ok \in BOOLEAN, archive \in Archives :
         LET got == get_bom_jsons(ftp_ok, archive, wanted)
         IN  /\ station_obs_list' = got
             /\ IF got = <<>>
                THEN /\ out' = Append(out, Line("no_observations", <<>>, 0))
                     /\ exit_code' = ExitStatus("no_observations")
                     /\ pc' = "exited"
                ELSE /\ pc' = "connect"
                     /\ UNCHANGED <<out, exit_code>>
    /\ UNCHANGED <<STATION_JSON, wanted, aprs_mapping, idx, obs, wx, aprs_str, comment,
                   wx_call, sent_count, sock, socks, raised>>

\* lines 307-316
InitialConnect ==
    /\ pc = "connect"
    /\ \E o \in ConnectOutcomes, osd \in CallOutcomes, ocl \in CallOutcomes :
         LET r == connect(Client, o)
             r2 == close([sock |-> r.sock, socks |-> r.socks], osd, ocl)
         IN  IF r.raised
             THEN /\ sock' = r2.sock
                  /\ socks' = r2.socks
                  /\ out' = Append(out, Line("connect_error", <<>>, 0))
                  /\ exit_code' = ExitStatus("connect_error")
                  /\ pc' = "exited"
                  /\ UNCHANGED <<idx, sent_count>>
             ELSE /\ sock' = r.sock
                  /\ socks' = r.socks
                  /\ sent_count' = 0
                  /\ idx' = 1
                  /\ pc' = "loop"
                  /\ UNCHANGED <<out, exit_code>>
    /\ UNCHANGED <<STATION_JSON, wanted, aprs_mapping, station_obs_list, obs, wx,
                   aprs_str, comment, wx_call, raised>>

\* lines 317-321
StationSelect ==
    /\ pc = "loop"
    /\ idx <= Len(station_obs_list)
    /\ LET st == station_obs_list[idx]
       IN  IF st.observations.k = "dict"
           THEN /\ out' = Append(out, Line("error", st.file, 0))
                /\ pc' = OnStationError(idx).pc
                /\ idx' = OnStationError(idx).idx
                /\ UNCHANGED <<obs, comment>>
           ELSE /\ obs' = st.observations.items[1]
                /\ comment' = IF st.station_name # <<>> THEN st.station_name
                              ELSE Text_BOMWX \o st.file
                /\ pc' = "encode"
                /\ UNCHANGED <<out, idx>>
    /\ UNCHANGED <<STATION_JSON, wanted, aprs_mapping, station_obs_list, wx, aprs_str,
                   wx_call, sent_count, sock, socks, raised, exit_code>>

\* lines 322-325, given what bom_json_to_aprs did
EncodeStep(r, file) ==
    IF r.r = "raise"
    THEN /\ out' = Append(out, Line("error", file, 0))
         /\ pc' = OnStationError(idx).pc
         /\ idx' = OnStationError(idx).idx
         /\ UNCHANGED <<aprs_str, wx, sent_count>>
    ELSE IF r.v.t = "none" \/ r.v.s = <<>>
    THEN /\ aprs_str' = r.v
         /\ out' = Append(out, Line("skip", file, 0))
         /\ pc' = OnSkip(idx, sent_count).pc
         /\ idx' = OnSkip(idx, sent_count).idx
         /\ sent_count' = OnSkip(idx, sent_count).sent_count
         /\ UNCHANGED wx
    ELSE /\ aprs_str' = r.v
         /\ wx' = Converted(obs.d)
         /\ pc' = "resolve"
         /\ UNCHANGED <<out, idx, sent_count>>

StationEncode ==
    /\ pc = "encode"
    /\ EncodeStep(bom_json_to_aprs(obs, comment), station_obs_list[idx].file)
    /\ UNCHANGED <<STATION_JSON, wanted, aprs_mapping, station_obs_list, obs, comment,
                   wx_call, sock, socks, raised, exit_code>>

\* lines 326-328
StationResolve ==
    /\ pc = "resolve"
    /\ LET file == station_obs_list[idx].file
           call == determine_aprs_call_for_file(file, aprs_mapping)
       IN  /\ wx_call' = call
           /\ out' = Append(out, [ev |-> "using", file |-> file, n |-> 0, call |-> call])
    /\ pc' = "send"
    /\ UNCHANGED <<STATION_JSON, wanted, aprs_mapping, station_obs_list, idx, obs, wx,
                   aprs_str, comment, sent_count, sock, socks, raised, exit_code>>

\* lines 329-334
StationSend ==
    /\ pc = "send"
    /\ \E oc \in ConnectOutcomes, os \in CallOutcomes :
         LET r == send_packet(Client, oc, os, wx_call, aprs_str.s)
             a == OnSend(r, idx, sent_count)
             file == station_obs_list[idx].file
         IN  /\ sock' = r.sock
             /\ socks' = r.socks
             /\ sent_count' = a.sent_count
             /\ out' = Append(out, Line(a.ev, file, a.sent_count))
             /\ pc' = IF r.raised THEN OnStationError(idx).pc ELSE "loop"
             /\ idx' = IF r.raised THEN OnStationError(idx).idx ELSE idx + 1
    /\ UNCHANGED <<STATION_JSON, wanted, aprs_mapping, station_obs_list, obs, wx,
                   aprs_str, comment, wx_call, raised, exit_code>>

\* lines 335-336: the finally clause
Cleanup ==
    /\ pc = "loop"
    /\ idx > Len(station_obs_list)
    /\ \E osd \in CallOutcomes, ocl \in CallOutcomes :
         LET r == close(Client, osd, ocl)
         IN  /\ sock' = r.sock
             /\ socks' = r.socks
    /\ pc' = "report"
    /\ UNCHANGED <<STATION_JSON, wanted, aprs_mapping, station_obs_list, idx, obs, wx,
                   aprs_str, comment, wx_call, sent_count, raised, out, exit_code>>

\* lines 337-338
Report ==
    /\ pc = "report"
    /\ out' = Append(out, Line("finished", <<>>, sent_count))
    /\ exit_code' = ExitStatus("finished")
    /\ pc' = "exited"
    /\ UNCHANGED <<STATION_JSON, wanted, aprs_mapping, station_obs_list, idx, obs, wx,
                   aprs_str, comment, wx_call, sent_count, sock, socks, raised>>

Next ==
    \/ Normalize
    \/ Fetch
    \/ InitialConnect
    \/ StationSelect
    \/ StationEncode
    \/ StationResolve
    \/ StationSend
    \/ Cleanup
    \/ Report

Spec == Init /\ [][Next]_vars

----------------------------------------------------------------------------
(* A client driven by a free sequence of connect, send_packet and close *)

ClientCalls == {APRS_CALL, "VK5TRM-15"}
ClientData == {<<"!", "w", "x">>}

InitClient ==
    /\ pc = "new"
    /\ STATION_JSON = [k |-> "none"]
    /\ wanted = <<>>
    /\ aprs_mapping = EmptyDict
    /\ station_obs_list = <<>>
    /\ idx = 0
    /\ obs = ObsNone
    /\ wx = NoWx
    /\ aprs_str = None
    /\ comment = <<>>
    /\ wx_call = ""
    /\ sent_count = 0
    /\ sock = 0
    /\ socks = <<>>
    /\ raised = FALSE
    /\ out = <<>>
    /\ exit_code = -1

\* the variables a client call leaves alone
ClientFrame ==
    UNCHANGED <<STATION_JSON, wanted, aprs_mapping, station_obs_list, idx, obs, wx,
                aprs_str, comment, wx_call, sent_count, out, exit_code>>

ClientConnect ==
    /\ sock # 0 \/ Len(socks) < MaxSockets
    /\ \E o \in ConnectOutcomes :
         LET r == connect(Client, o)
         IN  /\ sock' = r.sock
             /\ socks' = r.socks
             /\ raised' = r.raised
    /\ pc' = "connect"
    /\ ClientFrame

ClientSendPacket ==
    /\ sock # 0 \/ Len(socks) < MaxSockets
    /\ FramesOn(socks) < MaxFrames
    /\ \E oc \in ConnectOutcomes, os \in CallOutcomes,
          call \in ClientCalls, data \in ClientData :
         LET r == send_packet(Client, oc, os, call, data)
         IN  /\ sock' = r.sock
             /\ socks' = r.socks
             /\ raised' = r.raised
    /\ pc' = "send_packet"
    /\ ClientFrame

ClientClose ==
    /\ \E osd \in CallOutcomes, ocl \in CallOutcomes :
         LET r == close(Client, osd, ocl)
         IN  /\ sock' = r.sock
             /\ socks' = r.socks
             /\ raised' = r.raised
    /\ pc' = "close"
    /\ ClientFrame

NextClient ==
    \/ ClientConnect
    \/ ClientSendPacket
    \/ ClientClose

SpecClient == InitClient /\ [][NextClient]_vars

----------------------------------------------------------------------------
(* The encoder applied to one observation *)

Text_45_7 == <<"4", "5", ".", "7">>

\* values any field may hold when the feed has no usable reading
MissingValues == {JNull, JList, JStr(<<>>), JStr(<<"-">>), JStr(<<"n", "/", "a">>)}

\* readings a field may hold
Readings(f) ==
    IF f = "lat"
    THEN { JFloat(TRUE, 349285),
             JStr(<<"-", "3", "4", ".", "9", "2", "8", "5">>),
             JInt(-35),
             JFloat(FALSE, 5),
             JFloat(FALSE, 0),
             JStr(<<" ", "1", "2", ".", "5", " ">>),
             JFloat(TRUE, 899999) }
    ELSE IF f = "lon"
    THEN { JFloat(FALSE, 1386007),
             JStr(<<"1", "3", "8", ".", "6", "0", "0", "7">>),
             JInt(-7),
             JFloat(FALSE, 1799999),
             JStr(<<"+", "1", "5", "3", ".">>) }
    ELSE IF f = "air_temp"
    THEN { JFloat(TRUE, 400000),
             JFloat(TRUE, 177778),
             JFloat(TRUE, 3000),
             JFloat(FALSE, 0),
             JFloat(FALSE, 185000),
             JFloat(FALSE, 375000),
             JInt(-5),
             JStr(<<"1", "8", ".", "5">>) }
    ELSE IF f = "press"
    THEN { JFloat(FALSE, 10132000),
             JStr(<<"1", "0", "1", "3", ".", "2", "7">>),
             JStr(<<"1", "0", "1", "3", ".", "2", "5">>),
             JStr(<<"1", "0", "1", "3", ".", "0", "4">>),
             JStr(<<"9", "9", "9", ".", "9", "9">>),
             JFloat(FALSE, 9876500),
             JInt(1000),
             JFloat(FALSE, 10509500) }
    ELSE IF f = "rain_trace"
    THEN { JStr(<<"0", ".", "0">>),
             JStr(<<"0", ".", "2">>),
             JStr(<<"2", "5", ".", "4">>),
             JFloat(FALSE, 127000),
             JFloat(FALSE, 2539000),
             JStr(<<"2", "5", "4", ".", "2">>),
             JInt(300) }
    ELSE IF f = "rel_hum"
    THEN { JInt(0),
             JInt(5),
             JInt(55),
             JInt(99),
             JInt(100),
             JFloat(FALSE, 5000),
             JFloat(FALSE, 994999),
             JFloat(FALSE, 995000) }
    ELSE IF f = "wind_spd_kt"
    THEN { JInt(0),
             JInt(10),
             JInt(100),
             JFloat(FALSE, 25000),
             JStr(<<"8", "7">>) }
    ELSE IF f = "gust_kt"
    THEN { JInt(0),
             JInt(15),
             JInt(100),
             JFloat(FALSE, 25000),
             JStr(<<"8", "7">>) }
    ELSE IF f = "wind_dir"
    THEN { JStr(<<"n", "e">>),
             JStr(<<"4", "5">>),
             JStr(Text_45_7),
             JStr(<<"-", "4", "5", ".", "7">>),
             JStr(<<"3", "6", "0", ".">>),
             JInt(45),
             JInt(360),
             JFloat(FALSE, 2254999),
             JFloat(TRUE, 5000) }
    ELSE {}

CompassValues == {JStr(Chars(CardinalNames[i])) : i \in 1..Len(CardinalNames)}

\* values an observation field may hold
FieldValues(f) ==
    MissingValues \cup Readings(f) \cup (IF f = "wind_dir" THEN CompassValues ELSE {})

EncodeInputs ==
    {ObsNone, ObsOther}
      \cup UNION {{ObsDict([GoodFields EXCEPT ![f] = v]) : v \in FieldValues(f)} :
                    f \in FieldNames}
      \cup {ObsDict(Without(GoodFields, f)) : f \in FieldNames}

InitEncode ==
    /\ pc = "encode_call"
    /\ obs \in EncodeInputs
    /\ comment = Text_BOMWX
    /\ STATION_JSON = [k |-> "none"]
    /\ wanted = <<>>
    /\ aprs_mapping = EmptyDict
    /\ station_obs_list = <<>>
    /\ idx = 0
    /\ wx = NoWx
    /\ aprs_str = None
    /\ wx_call = ""
    /\ sent_count = 0
    /\ sock = 0
    /\ socks = <<>>
    /\ raised = FALSE
    /\ out = <<>>
    /\ exit_code = -1

\* what a call of bom_json_to_aprs leaves behind
EncodeResult(r) ==
    /\ raised' = (r.r = "raise")
    /\ aprs_str' = IF r.r = "raise" THEN None ELSE r.v
    /\ wx' = IF r.r = "return" /\ r.v.t = "str" THEN Converted(obs.d) ELSE NoWx

EncodeCall ==
    /\ pc = "encode_call"
    /\ EncodeResult(bom_json_to_aprs(obs, comment))
    /\ pc' = "encode_done"
    /\ UNCHANGED <<STATION_JSON, wanted, aprs_mapping, station_obs_list, idx, obs,
                   comment, wx_call, sent_count, sock, socks, out, exit_code>>

NextEncode == EncodeCall

SpecEncode == InitEncode /\ [][NextEncode]_vars

----------------------------------------------------------------------------
(* determine_aprs_call_for_file applied to one file name and one mapping *)

\* keys and entries a STATION_JSON dict may hold, and archive names to resolve
ResolveKeys == <<NameA, InDir(NameA), NameB>>
ResolveCalls == {"", "VK5TRM-14", "VK5TRM-15"}
ResolveFiles == {NameA, InDir(NameA), NameB, InDir(NameB), NameC}

ResolveSettings ==
    UNION {{[k |-> "dict",
             d |-> Dict(SelectSeq(ResolveKeys, LAMBDA key : key \in K), val)] :
              val \in [K -> ResolveCalls]} :
           K \in SUBSET SeqSet(ResolveKeys)}

InitResolve ==
    /\ pc = "resolve_call"
    /\ STATION_JSON \in ResolveSettings
    /\ wanted = _normalize_station_json_param(STATION_JSON).wanted
    /\ aprs_mapping = _normalize_station_json_param(STATION_JSON).mapping
    /\ \E file \in ResolveFiles :
         station_obs_list = <<Station(file, ObsList(<<ObsDict(GoodFields)>>),
                                      Basename(file))>>
    /\ idx = 1
    /\ obs = ObsNone
    /\ comment = <<>>
    /\ wx = NoWx
    /\ aprs_str = None
    /\ wx_call = ""
    /\ sent_count = 0
    /\ sock = 0
    /\ socks = <<>>
    /\ raised = FALSE
    /\ out = <<>>
    /\ exit_code = -1

ResolveCall ==
    /\ pc = "resolve_call"
    /\ wx_call' = determine_aprs_call_for_file(station_obs_list[idx].file, aprs_mapping)
    /\ pc' = "resolve_done"
    /\ UNCHANGED <<STATION_JSON, wanted, aprs_mapping, station_obs_list, idx, obs, wx,
                   aprs_str, comment, sent_count, sock, socks, raised, out, exit_code>>

NextResolve == ResolveCall

SpecResolve == InitResolve /\ [][NextResolve]_vars

----------------------------------------------------------------------------
(* Properties *)

HandshakeDone == \E i \in 1..Len(socks) : socks[i].wire # <<>>
StationLines(lines) == SelectSeq(lines, LAMBDA l : l.ev \in {"skip", "sent", "error"})
SentLines(lines) == SelectSeq(lines, LAMBDA l : l.ev = "sent")
UsingLines(lines) == SelectSeq(lines, LAMBDA l : l.ev = "using")
FinishedLines(lines) == SelectSeq(lines, LAMBDA l : l.ev = "finished")
SomeSocketClosed == \E i \in 1..Len(socks) : socks[i].closes > 0
RECURSIVE Transmitted(_)
Transmitted(sks) == IF sks = <<>> THEN 0 ELSE Len(sks[1].wire) + Transmitted(Tail(sks))

\* C1: when the process has exited, every socket that was created has been
\* closed exactly once, whichever way the run ended.
C1_EverySocketClosedOnce ==
    pc = "exited" => \A i \in 1..Len(socks) : socks[i].closes = 1

\* C2 as stated: Closed is terminal; once close has closed the session's
\* socket, no later call makes the session connected again or transmits.
C2_ClosedIsTerminal ==
    [][SomeSocketClosed => (sock' = 0 /\ Transmitted(socks') = Transmitted(socks))]_vars

\* C2 as amended: the session is Disconnected (no socket) or Connected; close
\* returns it to Disconnected, from where connect and send_packet open a new
\* connection; the session's socket is never a closed one and nothing more is
\* transmitted on a socket once it is closed.
C2_CloseReturnsToDisconnected ==
    /\ [](sock # 0 => socks[sock].state = "connected")
    /\ [][pc' = "close" => sock' = 0]_vars
    /\ [][\A i \in 1..Len(socks) :
            socks[i].state = "closed" => socks'[i] = socks[i]]_vars

\* C2 witness: a session closed once is connected again on a new socket and
\* has transmitted a frame there.
C2_ReconnectedAfterClose ==
    /\ SomeSocketClosed
    /\ sock # 0
    /\ Len(socks[sock].wire) >= 2

\* C3: close never raises and leaves the session without a socket; on a
\* session that has no socket (never connected, or closed before) it changes
\* nothing and calls no socket; on a connected session the socket is shut down
\* and closed once even when shutdown or close raise.
C3_CloseIdempotentNeverRaises ==
    [][pc' = "close" =>
         /\ ~raised'
         /\ sock' = 0
         /\ sock = 0 => socks' = socks
         /\ sock # 0 =>
              /\ socks'[sock].state = "closed"
              /\ socks'[sock].closes = socks[sock].closes + 1
              /\ \A i \in 1..Len(socks) : i # sock => socks'[i] = socks[i]]_vars

\* C3 witness: a close during which both shutdown and close raised has
\* returned, and the session is closed.
C3_ErrorsSwallowed ==
    /\ pc = "close"
    /\ ~raised
    /\ sock = 0
    /\ \E i \in 1..Len(socks) :
         socks[i].shutdown_error /\ socks[i].close_error /\ socks[i].state = "closed"

\* C4: on every connection the login line is the first thing transmitted and
\* is transmitted once, so every frame follows exactly one login line; connect
\* on a connected session opens nothing and transmits nothing; a send_packet
\* that returns on a session without a socket has opened one connection and
\* transmitted the login line and then the frame.
C4_OneLoginBeforeFrames ==
    /\ [](\A i \in 1..Len(socks) : \A j \in 1..Len(socks[i].wire) :
            (socks[i].wire[j].t = "login") <=> (j = 1))
    /\ [][(pc' = "connect" /\ sock # 0) => (socks' = socks /\ sock' = sock)]_vars
    /\ [][(pc' = "send_packet" /\ sock = 0 /\ ~raised') =>
            /\ sock' = Len(socks) + 1
            /\ Len(socks') = Len(socks) + 1
            /\ Len(socks'[sock'].wire) = 2
            /\ socks'[sock'].wire[1].t = "login"
            /\ socks'[sock'].wire[2].t = "frame"]_vars

\* C4 witness: connect has been called on a session that is connected and has
\* already transmitted a frame.
C4_ConnectWhileConnected ==
    /\ pc = "connect"
    /\ sock # 0
    /\ Len(socks[sock].wire) >= 2

\* C5: after the handshake, the stations dealt with so far are exactly the
\* first ones of the list, each once and in order, whatever failed; the loop
\* is left only after the last station, then the socket is closed and the run
\* exits with status 0.
C5_EveryStationAttempted ==
    HandshakeDone =>
      /\ idx \in 1..(Len(station_obs_list) + 1)
      /\ Len(StationLines(out)) =
           (IF pc \in {"report", "exited"} THEN Len(station_obs_list) ELSE idx - 1)
      /\ \A j \in 1..Len(StationLines(out)) :
           StationLines(out)[j].file = station_obs_list[j].file
      /\ pc \in {"report", "exited"} =>
           (sock = 0 /\ \A i \in 1..Len(socks) : socks[i].state = "closed")
      /\ pc = "exited" => exit_code = 0

\* C5 witness: the run has ended after a first station that failed and a
\* second station whose frame was sent.
C5_FailureThenSent ==
    /\ pc = "exited"
    /\ Len(StationLines(out)) = 2
    /\ StationLines(out)[1].ev = "error"
    /\ StationLines(out)[2].ev = "sent"

\* C6: after the handshake the counter equals the number of frames on the
\* wire, which is the number of stations reported as sent, and the final line
\* reports that number.
C6_SentCounter ==
    HandshakeDone =>
      /\ sent_count = FramesOn(socks)
      /\ sent_count = Len(SentLines(out))
      /\ \A j \in 1..Len(FinishedLines(out)) : FinishedLines(out)[j].n = FramesOn(socks)

\* C6 witness: two stations reached the send, one send raised, and the run
\* reported 1.
C6_OneOfTwoCounted ==
    /\ pc = "exited"
    /\ Len(FinishedLines(out)) = 1
    /\ sent_count = 1
    /\ Len(UsingLines(out)) = 2
    /\ \E j \in 1..Len(out) : out[j].ev = "error"

\* C7: the run exits non-zero, with no frame transmitted, when no usable
\* identifier is configured, when no observation was retrieved or when the
\* initial handshake failed; it exits zero when a frame was transmitted.
C7_ExitStatus ==
    pc = "exited" =>
      /\ (wanted = <<>> \/ station_obs_list = <<>> \/ ~HandshakeDone) =>
           (exit_code # 0 /\ FramesOn(socks) = 0)
      /\ FramesOn(socks) >= 1 => exit_code = 0

\* C7 witness: the run has exited with status 1 after a handshake that failed
\* on a socket it had created.
C7_HandshakeFailedExit ==
    /\ pc = "exited"
    /\ exit_code = 1
    /\ station_obs_list # <<>>
    /\ Len(socks) = 1
    /\ ~HandshakeDone

\* the fixed width of each weather field of the report
FieldWidths ==
    [wind_dir |-> 3, wind_speed |-> 3, wind_gust |-> 3, temperature |-> 3,
     rain_since_midnight |-> 3, humidity |-> 2, pressure |-> 5]

\* C8: every weather token of an encoded report has exactly the width of its
\* field, whatever the value.
C8_FixedWidthTokens ==
    (pc = "encode_done" /\ aprs_str.t = "str") =>
      \A f \in DOMAIN FieldWidths : Len(str_or_dots(wx[f], FieldWidths[f])) = FieldWidths[f]

\* the compass table as the specification gives it
C9_Compass ==
    { <<<<"N">>, 0>>, <<<<"N", "N", "E">>, 22>>, <<<<"N", "E">>, 45>>,
      <<<<"E", "N", "E">>, 67>>, <<<<"E">>, 90>>, <<<<"E", "S", "E">>, 112>>,
      <<<<"S", "E">>, 135>>, <<<<"S", "S", "E">>, 157>>, <<<<"S">>, 180>>,
      <<<<"S", "S", "W">>, 202>>, <<<<"S", "W">>, 225>>, <<<<"W", "S", "W">>, 247>>,
      <<<<"W">>, 270>>, <<<<"W", "N", "W">>, 292>>, <<<<"N", "W">>, 315>>,
      <<<<"N", "N", "W">>, 337>>, <<<<"C", "A", "L", "M">>, 0>> }

C9_IsKey(v) == v.k = "str" /\ \E e \in C9_Compass : e[1] = v.s
C9_Degrees(v) == (CHOOSE e \in C9_Compass : e[1] = v.s)[2]
C9_Value == Get(obs.d, "wind_dir", JNull)
\* where the direction token sits when the position texts have 8 and 9 characters
C9_Token == SubSeq(aprs_str.s, 21, 23)

\* C9 as stated: a key of the table resolves to its degrees, any other value
\* that parses as a number resolves to that number, anything else is
\* unavailable and renders as three placeholder characters.
C9_WindDirResolution ==
    (pc = "encode_done" /\ aprs_str.t = "str") =>
      IF C9_IsKey(C9_Value) THEN wx.wind_dir = PyInt(C9_Degrees(C9_Value))
      ELSE IF ToFloat(C9_Value).ok
      THEN /\ wx.wind_dir.t = "int"
           /\ Abs(wx.wind_dir.v) * FScale = ToFloat(C9_Value).v.m
           /\ (wx.wind_dir.v < 0) => ToFloat(C9_Value).v.neg
      ELSE wx.wind_dir = None /\ C9_Token = <<".", ".", ".">>

\* C9 as amended: a value that is no key and parses as a number resolves to
\* the integer part of that number, truncated toward zero.
C9_WindDirTruncated ==
    (pc = "encode_done" /\ aprs_str.t = "str") =>
      IF C9_IsKey(C9_Value) THEN wx.wind_dir = PyInt(C9_Degrees(C9_Value))
      ELSE IF ToFloat(C9_Value).ok
      THEN /\ wx.wind_dir.t = "int"
           /\ Abs(wx.wind_dir.v) * FScale <= ToFloat(C9_Value).v.m
           /\ ToFloat(C9_Value).v.m < (Abs(wx.wind_dir.v) + 1) * FScale
           /\ (wx.wind_dir.v < 0) => ToFloat(C9_Value).v.neg
           /\ (wx.wind_dir.v > 0) => ~ToFloat(C9_Value).v.neg
      ELSE wx.wind_dir = None /\ C9_Token = <<".", ".", ".">>

\* C9 witness: the text 45.7 has been resolved to 45.
C9_FractionDropped ==
    /\ pc = "encode_done"
    /\ aprs_str.t = "str"
    /\ C9_Value = JStr(Text_45_7)
    /\ wx.wind_dir = PyInt(45)
    /\ C9_Token = <<"0", "4", "5">>

\* a present value that float() rejects
C10_Rejected(v) ==
    \/ v.k \in {"null", "list"}
    \/ v.k = "str" /\ ~ParseFloat(v.s).ok

\* C10 as stated: a latitude or longitude that is missing or not a number.
C10_Unparseable(o) ==
    /\ o.kind = "dict"
    /\ \E f \in {"lat", "lon"} : f \notin DOMAIN o.d \/ C10_Rejected(o.d[f])

\* C10 as amended: a latitude or longitude that is present and not a number.
C10_PresentUnparseable(o) ==
    /\ o.kind = "dict"
    /\ \E f \in {"lat", "lon"} : f \in DOMAIN o.d /\ C10_Rejected(o.d[f])

\* what the run does with a station whose observation the encoder refuses
C10_Skipped ==
    /\ aprs_str'.t = "none"
    /\ socks' = socks
    /\ sent_count' = sent_count
    /\ pc' = "loop"
    /\ idx' = idx + 1

\* C10 as stated: an observation whose latitude or longitude is missing or not
\* a number gives no report, no frame and no count, and the loop goes on.
C10_UnparseablePositionSkipped ==
    [][(pc = "encode" /\ C10_Unparseable(obs)) => C10_Skipped]_vars

\* C10 as amended: an observation whose latitude or longitude is present but
\* not a number gives no report, no frame and no count, and the loop goes on;
\* a missing latitude or longitude counts as 0.0 and the report is encoded.
C10_PresentUnparseableSkipped ==
    /\ [][(pc = "encode" /\ C10_PresentUnparseable(obs)) => C10_Skipped]_vars
    /\ [][(pc = "encode" /\ obs.kind = "dict" /\ ~C10_PresentUnparseable(obs)
           /\ ~WindDirRaises(obs.d)) => (aprs_str'.t = "str" /\ pc' = "resolve")]_vars

\* C10 witness: the first station, whose latitude is null, was skipped and the
\* loop stands at the second station.
C10_NullLatitudeSkipped ==
    /\ pc = "loop"
    /\ idx = 2
    /\ Len(station_obs_list) = 2
    /\ station_obs_list[1].observations.k = "list"
    /\ C10_PresentUnparseable(station_obs_list[1].observations.items[1])
    /\ out[Len(out)].ev = "skip"
    /\ sent_count = 0
    /\ FramesOn(socks) = 0

----------------------------------------------------------------------------
(* C11: the identity of a file under the configured mapping *)

C11_File == station_obs_list[idx].file

\* the names under which the configured mapping holds an entry for the file
C11_Names == {C11_File, Basename(C11_File)} \cap Keys(STATION_JSON.d)

\* the non-empty entries the configured mapping holds for the file
C11_Entries == {STATION_JSON.d.val[n] : n \in C11_Names} \ {""}

\* C11 as stated: a file with a non-empty entry in the mapping, under its full
\* archive name or under its base name, resolves to that entry, and a file
\* absent from the mapping resolves to the default identity APRS_CALL.
C11_MappingEntryOrDefault ==
    pc = "resolve_done" =>
        /\ (C11_Entries # {}) => wx_call \in C11_Entries
        /\ (C11_Names = {}) => wx_call = APRS_CALL

\* the one name under which the resolver reads the mapping: the full archive
\* name when it is a key, else the base name
C11_Name == IF C11_File \in C11_Names THEN C11_File ELSE Basename(C11_File)

\* C11 as amended: the mapping is read under the full archive name when that
\* name is a key and under the base name only when it is not; a non-empty
\* entry found there is the resolved identity, and an empty entry there, or a
\* file absent under both names, resolves to the default identity APRS_CALL.
C11_FullNameBeforeBaseName ==
    pc = "resolve_done" =>
        IF C11_Name \in C11_Names /\ STATION_JSON.d.val[C11_Name] # ""
        THEN wx_call = STATION_JSON.d.val[C11_Name]
        ELSE wx_call = APRS_CALL

\* C11 witness: a member in a directory, not a key under its full name, has
\* been resolved to the entry held under its base name.
C11_BaseNameEntryUsed ==
    /\ pc = "resolve_done"
    /\ C11_File = InDir(NameA)
    /\ C11_Names = {NameA}
    /\ STATION_JSON.d.val[NameA] = "VK5TRM-14"
    /\ wx_call = "VK5TRM-14"

----------------------------------------------------------------------------
(* C12: the identity of a station of the run *)

\* the station whose identity has just been resolved
C12_Station == station_obs_list[idx]

\* the non-empty entries the run's mapping holds for the station's file
C12_Entries ==
    {aprs_mapping.val[n] :
       n \in {C12_Station.file, Basename(C12_Station.file)} \cap Keys(aprs_mapping)} \ {""}

\* a station name cut at its first whitespace and to nine characters
C12_Derived(name) ==
    LET word == Split(name, " ")[1]
    IN  IF Len(word) > 9 THEN SubSeq(word, 1, 9) ELSE word

\* an identity as the text of the frame: the station name of the inputs, or
\* the first nine characters of their file names
C12_Text(token) ==
    IF token = <<"A", "d", "e", "l", "a", "i", "d", "e">> THEN "Adelaide"
    ELSE IF token = <<"I", "D", "S", "6", "0", "9", "1", "0", ".">> THEN "IDS60910."
    ELSE ""

\* C12 as stated: a station without a non-empty mapping entry whose station
\* name is available is given the identity derived from that name, the default
\* identity APRS_CALL is used only when there is neither an entry nor a name,
\* and the identity is never empty.
C12_NameDerivedIdentity ==
    pc = "send" =>
        /\ wx_call # ""
        /\ (C12_Entries = {} /\ C12_Station.station_name # <<>>)
             => wx_call = C12_Text(C12_Derived(C12_Station.station_name))
        /\ (C12_Entries = {} /\ C12_Station.station_name = <<>>) => wx_call = APRS_CALL

\* C12 as amended: resolution never fails and has two steps; a station without
\* a non-empty mapping entry is given the default identity APRS_CALL whether
\* or not a station name is available, no identity is derived from the station
\* name, and the identity is never empty.
C12_EntryElseDefault ==
    pc = "send" =>
        /\ wx_call # ""
        /\ (C12_Entries = {}) => wx_call = APRS_CALL
        /\ wx_call \in C12_Entries \cup {APRS_CALL}
        /\ out[Len(out)] = [ev |-> "using", file |-> C12_Station.file, n |-> 0,
                            call |-> wx_call]

\* C12 witness: a station named Adelaide whose mapping entry is empty has been
\* given the default identity.
C12_NamedStationGetsDefault ==
    /\ pc = "send"
    /\ C12_Station.station_name = StationName
    /\ C12_Station.file \in Keys(aprs_mapping)
    /\ aprs_mapping.val[C12_Station.file] = ""
    /\ C12_Entries = {}
    /\ wx_call = APRS_CALL

----------------------------------------------------------------------------
(* C13: the pressure of the report *)

\* the station pressure of the observation, as float() reads it
C13_Press == ToFloat(Get(obs.d, "press", JNull))

\* the report has been encoded from a station pressure that parses as a
\* number (of at least 0 hPa)
C13_Encoded ==
    /\ pc = "encode_done"
    /\ aprs_str.t = "str"
    /\ C13_Press.ok
    /\ ~C13_Press.v.neg

\* the pressure token of the report: the five characters before the comment
C13_Token ==
    SubSeq(aprs_str.s, Len(aprs_str.s) - Len(comment) - 4, Len(aprs_str.s) - Len(comment))

\* the distance between the pressure in the report, in tenths of a hPa, and
\* ten times the station pressure, in 1 / FScale of a tenth
C13_Below == C13_Press.v.m * 10 - DigitsVal(C13_Token) * FScale

\* C13 as stated: the pressure in the report is round(hPa x 10), the whole
\* number of tenths of a hPa nearest to the station pressure.
C13_PressureRounded ==
    C13_Encoded =>
        /\ AllDigits(C13_Token)
        /\ 2 * Abs(C13_Below) <= FScale

\* C13 as amended: the pressure in the report is int(hPa x 10), the whole
\* number of tenths of a hPa at or next below the station pressure.
C13_PressureTruncated ==
    C13_Encoded =>
        /\ AllDigits(C13_Token)
        /\ wx.pressure = PyInt(DigitsVal(C13_Token))
        /\ 0 <= C13_Below
        /\ C13_Below < FScale

\* C13 witness: 1013.27 hPa has been encoded as 10132.
C13_HundredthsDropped ==
    /\ C13_Encoded
    /\ Get(obs.d, "press", JNull) = JStr(<<"1", "0", "1", "3", ".", "2", "7">>)
    /\ C13_Token = <<"1", "0", "1", "3", "2">>

====
